---- MODULE Spec2Model ----
(***************************************************************************)
(* Model of the Deta Base client (base.go): item normalization, the       *)
(* update-request encoder, the put/insert/get/update/delete operations    *)
(* and Fetch with its paging cursor.  A call is one action: it runs the   *)
(* handler from entry to return (or panic), the transport collaborator's  *)
(* answer being an input of the action.                                    *)
(***************************************************************************)
EXTENDS Integers, Sequences, FiniteSets, TLC

VARIABLES pc, op, arg, sent, resp, ret, collection, retrieved, calls

vars == <<pc, op, arg, sent, resp, ret, collection, retrieved, calls>>

(* ------------------------------ bounds -------------------------------- *)

\* longest hand-built slice of arbitrary values given to Put / PutMany
MaxLen == 2
\* largest uniform batch given to PutMany (beyond the 25-item cap)
MaxBatch == 26
\* largest limit given to Fetch
MaxLimit == 11
\* largest collection held by the service in the paging runs
MaxItems == 15
\* most Fetch calls a paging caller makes
MaxCalls == 3

(* --------------------------- Go and JSON values ------------------------ *)

\* Go values a caller can pass as interface{} (tag g)
GoNil == [g |-> "nil"]
GoChan == [g |-> "chan"]
GoString(s) == [g |-> "string", s |-> s]
GoInt(n) == [g |-> "int", n |-> n]
GoBool(b) == [g |-> "bool", b |-> b]
GoMap(m) == [g |-> "map", m |-> m]
GoSlice(e) == [g |-> "slice", e |-> e]

\* JSON values, which are also what encoding/json decodes into interface{}
JNull == [j |-> "null"]
JString(s) == [j |-> "string", s |-> s]
JNumber(n) == [j |-> "number", n |-> n]
JBool(b) == [j |-> "bool", b |-> b]
JObject(m) == [j |-> "object", m |-> m]
JArray(e) == [j |-> "array", e |-> e]

\* a Go slice is nil or holds elements; a nil slice encodes as JSON null
NilSlice == [isNil |-> TRUE, elems |-> <<>>]
SliceOf(e) == [isNil |-> FALSE, elems |-> e]
\* Go's append(s, x): appending to a nil slice allocates
GoAppend(s, x) == [isNil |-> FALSE, elems |-> Append(s.elems, x)]

\* a baseItem is a map[string]interface{}: nil or a mapping of fields
NilItem == [isNil |-> TRUE, m |-> <<>>]
ItemOf(m) == [isNil |-> FALSE, m |-> m]

\* the error values of the package, and the errors of the collaborators
NoErr == "nil"
ErrTooManyItems == "ErrTooManyItems"
ErrBadDestination == "ErrBadDestination"
ErrBadItem == "ErrBadItem"
ErrTransport == "transport error"
ErrJSON == "json error"

\* json.Marshal: Go value to JSON value; a channel is not serializable,
\* and neither is a container holding one
RECURSIVE Marshal(_)
Marshal(v) ==
    CASE v.g = "nil" -> [ok |-> TRUE, data |-> JNull]
      [] v.g = "chan" -> [ok |-> FALSE, data |-> JNull]
      [] v.g = "string" -> [ok |-> TRUE, data |-> JString(v.s)]
      [] v.g = "int" -> [ok |-> TRUE, data |-> JNumber(v.n)]
      [] v.g = "bool" -> [ok |-> TRUE, data |-> JBool(v.b)]
      [] v.g = "map" ->
            IF \A f \in DOMAIN v.m : Marshal(v.m[f]).ok
            THEN [ok |-> TRUE,
                  data |-> JObject([f \in DOMAIN v.m |-> Marshal(v.m[f]).data])]
            ELSE [ok |-> FALSE, data |-> JNull]
      [] v.g = "slice" ->
            IF \A i \in DOMAIN v.e : Marshal(v.e[i]).ok
            THEN [ok |-> TRUE,
                  data |-> JArray([i \in DOMAIN v.e |-> Marshal(v.e[i]).data])]
            ELSE [ok |-> FALSE, data |-> JNull]

\* json.Unmarshal(data, &bi) with bi a baseItem: an object fills the map,
\* null leaves the map nil without an error, anything else is an error
UnmarshalBaseItem(data) ==
    CASE data.j = "object" -> [ok |-> TRUE, bi |-> ItemOf(data.m)]
      [] data.j = "null" -> [ok |-> TRUE, bi |-> NilItem]
      [] OTHER -> [ok |-> FALSE, bi |-> NilItem]

\* json.Unmarshal(data, &bi) with bi a []baseItem
UnmarshalBaseItems(data) ==
    CASE data.j = "array" ->
            IF \A i \in DOMAIN data.e : UnmarshalBaseItem(data.e[i]).ok
            THEN [ok |-> TRUE,
                  bi |-> SliceOf([i \in DOMAIN data.e |->
                                     UnmarshalBaseItem(data.e[i]).bi])]
            ELSE [ok |-> FALSE, bi |-> NilSlice]
      [] data.j = "null" -> [ok |-> TRUE, bi |-> NilSlice]
      [] OTHER -> [ok |-> FALSE, bi |-> NilSlice]

\* encoding of a baseItem / []baseItem in a request body
ItemJSON(bi) == IF bi.isNil THEN JNull ELSE JObject(bi.m)
ItemsJSON(s) ==
    IF s.isNil THEN JNull
    ELSE JArray([i \in DOMAIN s.elems |-> ItemJSON(s.elems[i])])

(* ------------------------------ normalizer ----------------------------- *)

\* delete(bi, "key")
DeleteKey(m) == [f \in (DOMAIN m) \ {"key"} |-> m[f]]

\* a variant that deletes every string key
removeEmptyKey_dropsAll(bi) ==
    IF "key" \notin DOMAIN bi.m THEN [err |-> NoErr, bi |-> bi]
    ELSE IF bi.m["key"].j = "string"
         THEN [err |-> NoErr, bi |-> ItemOf(DeleteKey(bi.m))]
         ELSE [err |-> ErrBadItem, bi |-> bi]

removeEmptyKey(bi) ==
    IF "key" \notin DOMAIN bi.m THEN [err |-> NoErr, bi |-> bi]
    ELSE IF bi.m["key"].j = "string"
         THEN IF bi.m["key"].s = ""
              THEN [err |-> NoErr, bi |-> ItemOf(DeleteKey(bi.m))]
              ELSE [err |-> NoErr, bi |-> bi]
         ELSE [err |-> ErrBadItem, bi |-> bi]

modifyItem(item) ==
    LET mar == Marshal(item)
        un == UnmarshalBaseItem(mar.data)
        rm == removeEmptyKey(un.bi)
    IN  IF ~mar.ok THEN [bi |-> NilItem, err |-> ErrBadItem]
        ELSE IF ~un.ok THEN [bi |-> NilItem, err |-> ErrBadItem]
        ELSE IF rm.err # NoErr THEN [bi |-> NilItem, err |-> rm.err]
        ELSE [bi |-> rm.bi, err |-> NoErr]

modifyItems(items) ==
    LET mar == Marshal(items)
        un == UnmarshalBaseItems(mar.data)
        rm == [i \in DOMAIN un.bi.elems |-> removeEmptyKey(un.bi.elems[i])]
    IN  IF ~mar.ok THEN [bi |-> NilSlice, err |-> ErrBadItem]
        ELSE IF ~un.ok THEN [bi |-> NilSlice, err |-> ErrBadItem]
        ELSE IF \E i \in DOMAIN rm : rm[i].err # NoErr
             THEN [bi |-> NilSlice, err |-> ErrBadItem]
        ELSE [bi |-> [isNil |-> un.bi.isNil,
                      elems |-> [i \in DOMAIN rm |-> rm[i].bi]],
              err |-> NoErr]

(* ------------------------------ transport ------------------------------ *)

\* what client.request gives back: an error, or a response body; a body
\* is either not decodable as JSON or a JSON value
TransportErr == [kind |-> "err"]
BadJSON == [kind |-> "badjson"]
Body(b) == [kind |-> "body", body |-> b]

\* url.PathEscape on the keys used here: "/" is escaped, letters and
\* digits are kept
PathEscape(key) == IF key = "a/b" THEN "a%2Fb" ELSE key

\* outcome of a call: the requests it issued and how it ended
Return(reqs, val, err) ==
    [sent |-> reqs, kind |-> "return", val |-> val, err |-> err]
Panic(reqs, why) ==
    [sent |-> reqs, kind |-> "panic", val |-> why, err |-> NoErr]

(* ------------------------------ put / insert --------------------------- *)

\* item["key"].(string) succeeds
HasStringKey(m) == "key" \in DOMAIN m /\ m["key"].j = "string"

\* putResponse decoded from the body: pr.Processed["items"]
ProcessedItems(body) ==
    IF "processed" \in DOMAIN body /\ "items" \in DOMAIN body["processed"]
    THEN body["processed"]["items"]
    ELSE <<>>

putRequest(items) ==
    [method |-> "PUT", path |-> "/items", body |-> [items |-> ItemsJSON(items)]]

\* a variant that sends the request again when the transport fails
put_retries(items, t) ==
    LET req == putRequest(items)
        processed == ProcessedItems(t.body)
    IN  IF t.kind = "err" THEN Return(<<req, req>>, NilSlice, ErrTransport)
        ELSE IF t.kind = "badjson" THEN Return(<<req>>, NilSlice, ErrJSON)
        ELSE IF \E i \in DOMAIN processed : ~HasStringKey(processed[i])
             THEN Panic(<<req>>, "interface conversion")
        ELSE IF processed = <<>> THEN Return(<<req>>, NilSlice, NoErr)
        ELSE Return(<<req>>,
                    SliceOf([i \in DOMAIN processed |-> processed[i]["key"].s]),
                    NoErr)

put(items, t) ==
    LET req == putRequest(items)
        processed == ProcessedItems(t.body)
    IN  IF t.kind = "err" THEN Return(<<req>>, NilSlice, ErrTransport)
        ELSE IF t.kind = "badjson" THEN Return(<<req>>, NilSlice, ErrJSON)
        ELSE IF \E i \in DOMAIN processed : ~HasStringKey(processed[i])
             THEN Panic(<<req>>, "interface conversion")
        ELSE IF processed = <<>> THEN Return(<<req>>, NilSlice, NoErr)
        ELSE Return(<<req>>,
                    SliceOf([i \in DOMAIN processed |-> processed[i]["key"].s]),
                    NoErr)

PutCall(item, t) ==
    LET mod == modifyItems(GoSlice(<<item>>))
        p == put(mod.bi, t)
    IN  IF item = GoNil THEN Return(<<>>, "", NoErr)
        ELSE IF mod.err # NoErr THEN Return(<<>>, "", mod.err)
        ELSE IF p.kind = "panic" THEN p
        ELSE IF p.err # NoErr THEN Return(p.sent, "", p.err)
        ELSE IF Len(p.val.elems) = 0 THEN Panic(p.sent, "index out of range")
        ELSE Return(p.sent, p.val.elems[1], NoErr)

\* a variant whose cap is off by one
PutManyCall_cap(items, t) ==
    LET mod == modifyItems(items)
    IN  IF mod.err # NoErr THEN Return(<<>>, NilSlice, mod.err)
        ELSE IF Len(mod.bi.elems) = 0 THEN Return(<<>>, NilSlice, NoErr)
        ELSE IF Len(mod.bi.elems) >= 25 THEN Return(<<>>, NilSlice, ErrTooManyItems)
        ELSE put(mod.bi, t)

PutManyCall(items, t) ==
    LET mod == modifyItems(items)
    IN  IF mod.err # NoErr THEN Return(<<>>, NilSlice, mod.err)
        ELSE IF Len(mod.bi.elems) = 0 THEN Return(<<>>, NilSlice, NoErr)
        ELSE IF Len(mod.bi.elems) > 25 THEN Return(<<>>, NilSlice, ErrTooManyItems)
        ELSE put(mod.bi, t)

InsertCall(item, t) ==
    LET mod == modifyItem(item)
        req == [method |-> "POST", path |-> "/items",
                body |-> [item |-> ItemJSON(mod.bi)]]
        un == UnmarshalBaseItem(t.body)
    IN  IF mod.err # NoErr THEN Return(<<>>, "", mod.err)
        ELSE IF t.kind = "err" THEN Return(<<req>>, "", ErrTransport)
        ELSE IF t.kind = "badjson" THEN Return(<<req>>, "", ErrJSON)
        ELSE IF ~un.ok THEN Return(<<req>>, "", ErrJSON)
        ELSE IF ~HasStringKey(un.bi.m) THEN Panic(<<req>>, "interface conversion")
        ELSE Return(<<req>>, un.bi.m["key"].s, NoErr)

(* --------------------------- update encoder ---------------------------- *)

\* the operation markers of the Util helpers (*trimUtil, *appendUtil, ...)
TrimUtil == [g |-> "trimUtil"]
AppendUtil(v) == [g |-> "appendUtil", value |-> v]
PrependUtil(v) == [g |-> "prependUtil", value |-> v]
IncrementUtil(v) == [g |-> "incrementUtil", value |-> v]

\* a Go map made with make(): never nil
MakeMap(m) == [isNil |-> FALSE, m |-> m]

\* the fields of updates whose value has the dynamic type tag
Tagged(updates, tag) == {k \in DOMAIN updates : updates[k].g = tag}
Untagged(updates) ==
    {k \in DOMAIN updates :
        updates[k].g \notin {"trimUtil", "appendUtil", "prependUtil", "incrementUtil"}}

\* the orders in which "for k, v := range updates" can visit the fields
RangeOrders(updates) ==
    {o \in [1..Cardinality(DOMAIN updates) -> DOMAIN updates] :
        \A i, k \in DOMAIN o : i # k => o[i] # o[k]}

IsTrim(v) == v.g = "trimUtil"

\* a variant that files increments under set
updatesToUpdateRequest_incrAsSet(updates, order) ==
    LET trimmed == SelectSeq(order, LAMBDA k : IsTrim(updates[k]))
        incr == Tagged(updates, "incrementUtil")
    IN  [Set |-> MakeMap([k \in Untagged(updates) \cup incr |->
                            IF k \in incr THEN updates[k].value ELSE updates[k]]),
         Trim |-> IF trimmed = <<>> THEN NilSlice ELSE SliceOf(trimmed),
         Append |-> MakeMap([k \in Tagged(updates, "appendUtil") |-> updates[k].value]),
         Prepend |-> MakeMap([k \in Tagged(updates, "prependUtil") |-> updates[k].value]),
         Increment |-> MakeMap(<<>>)]

\* updateReq after the loop over updates, visited in the given order; Trim
\* is not allocated up front and stays nil until the first append to it
updatesToUpdateRequest(updates, order) ==
    LET trimmed == SelectSeq(order, LAMBDA k : IsTrim(updates[k]))
    IN  [Set |-> MakeMap([k \in Untagged(updates) |-> updates[k]]),
         Trim |-> IF trimmed = <<>> THEN NilSlice ELSE SliceOf(trimmed),
         Append |-> MakeMap([k \in Tagged(updates, "appendUtil") |-> updates[k].value]),
         Prepend |-> MakeMap([k \in Tagged(updates, "prependUtil") |-> updates[k].value]),
         Increment |-> MakeMap([k \in Tagged(updates, "incrementUtil") |-> updates[k].value])]

\* JSON encoding of a map[string]interface{} and of a []string
MapJSON(mp) ==
    IF mp.isNil THEN JNull ELSE JObject([k \in DOMAIN mp.m |-> Marshal(mp.m[k]).data])
StringsJSON(sl) ==
    IF sl.isNil THEN JNull ELSE JArray([i \in DOMAIN sl.elems |-> JString(sl.elems[i])])

\* the wire form of an updateRequest, by its json tags
updateRequest(ur) ==
    [set |-> MapJSON(ur.Set), trim |-> StringsJSON(ur.Trim),
     append |-> MapJSON(ur.Append), prepend |-> MapJSON(ur.Prepend),
     increment |-> MapJSON(ur.Increment)]

(* ------------------------- get / update / delete ----------------------- *)

\* json.Unmarshal of a JSON value into a destination of the given shape:
\* null fits everything, "any" takes everything
Decodes(data, dest) ==
    \/ dest = "any"
    \/ data.j = "null"
    \/ dest = "map" /\ data.j = "object"
    \/ dest = "slice" /\ data.j = "array"
    \/ dest = "int" /\ data.j = "number"

GetCall(key, dest, t) ==
    LET req == [method |-> "GET", path |-> <<"/items", PathEscape(key)>>]
    IN  IF t.kind = "err" THEN Return(<<req>>, "", ErrTransport)
        ELSE IF t.kind = "badjson" THEN Return(<<req>>, "", ErrBadDestination)
        ELSE IF ~Decodes(t.body, dest) THEN Return(<<req>>, "", ErrBadDestination)
        ELSE Return(<<req>>, "", NoErr)

UpdateCall(key, updates, order, t) ==
    LET ur == updatesToUpdateRequest(updates, order)
        req == [method |-> "PATCH", path |-> <<"/items", PathEscape(key)>>,
                body |-> updateRequest(ur)]
    IN  IF t.kind = "err" THEN Return(<<req>>, "", ErrTransport)
        ELSE Return(<<req>>, "", NoErr)

DeleteCall(key, t) ==
    LET req == [method |-> "DELETE", path |-> <<"/items", PathEscape(key)>>]
    IN  IF t.kind = "err" THEN Return(<<req>>, "", ErrTransport)
        ELSE Return(<<req>>, "", NoErr)

(* -------------------------------- fetch -------------------------------- *)

\* a pointer is nil or points at a value
NilPtr == [isNil |-> TRUE]
Ptr(v) == [isNil |-> FALSE, v |-> v]

\* JSON encoding of a Query, a []map[string]interface{} (nil encodes as null)
QueryJSON(q) ==
    IF q.isNil THEN JNull
    ELSE JArray([i \in DOMAIN q.elems |->
                    JObject([f \in DOMAIN q.elems[i] |-> Marshal(q.elems[i][f]).data])])

\* the wire form of a fetchRequest: last and limit carry omitempty
fetchRequest(req) ==
    LET fields == {"query"} \cup (IF req.Last.isNil THEN {} ELSE {"last"})
                            \cup (IF req.Limit.isNil THEN {} ELSE {"limit"})
    IN  [f \in fields |-> CASE f = "query" -> QueryJSON(req.Query)
                            [] f = "last" -> JString(req.Last.v)
                            [] f = "limit" -> JNumber(req.Limit.v)]

\* the paging struct decoded from the "paging" object of a response
paging(obj) ==
    [Size |-> IF "size" \in DOMAIN obj THEN obj["size"].n ELSE 0,
     Last |-> IF "last" \in DOMAIN obj /\ obj["last"].j = "string"
              THEN Ptr(obj["last"].s) ELSE NilPtr]

\* the fetchResponse struct decoded from a response body (a JSON object)
fetchResponse(body) ==
    [Paging |-> IF "paging" \in DOMAIN body /\ body["paging"].j = "object"
                THEN Ptr(paging(body["paging"].m)) ELSE NilPtr,
     Items |-> IF "items" \in DOMAIN body /\ body["items"].j = "array"
               THEN SliceOf(body["items"].e) ELSE NilSlice]

\* a variant that also sends a zero limit
FetchReq_zero(query, limit) ==
    [Query |-> query, Last |-> NilPtr,
     Limit |-> IF limit >= 0 THEN Ptr(limit) ELSE NilPtr]

\* what Fetch puts in the request: the query and, for a positive limit,
\* the limit; Last is never set
FetchReq(query, limit) ==
    [Query |-> query, Last |-> NilPtr,
     Limit |-> IF limit > 0 THEN Ptr(limit) ELSE NilPtr]

\* the request Fetch issues
FetchWire(query, limit) ==
    [method |-> "POST", path |-> "/query",
     body |-> fetchRequest(FetchReq(query, limit))]

\* the result carries the page scanned onto dest and the cursor (val)
FetchCall(query, dest, limit, t) ==
    LET req == FetchWire(query, limit)
        res == fetchResponse(t.body)
        data == IF res.Items.isNil THEN JNull ELSE JArray(res.Items.elems)
    IN  IF t.kind = "err" THEN Return(<<req>>, "", ErrTransport) @@ [dest |-> <<>>]
        ELSE IF t.kind = "badjson" THEN Return(<<req>>, "", ErrJSON) @@ [dest |-> <<>>]
        ELSE IF ~Decodes(data, dest)
             THEN Return(<<req>>, "", ErrBadDestination) @@ [dest |-> <<>>]
        ELSE IF res.Paging.isNil
             THEN Panic(<<req>>, "nil pointer dereference") @@ [dest |-> res.Items.elems]
        ELSE Return(<<req>>,
                    IF res.Paging.v.Last.isNil THEN "" ELSE res.Paging.v.Last.v,
                    NoErr) @@ [dest |-> res.Items.elems]

(* ------------------------------- service ------------------------------- *)

\* the item the service stores for a submitted one: it assigns a key to
\* an item that has none
Stored(m, i) ==
    IF HasStringKey(m) THEN m
    ELSE [f \in (DOMAIN m) \cup {"key"} |->
             IF f = "key" THEN JString("auto" \o ToString(i)) ELSE m[f]]

\* ways the service splits n submitted items: the indices it processed, in
\* the order it returns them, and the ones it failed
Splits(n) ==
    UNION {{[proc |-> [i \in 1..p |-> i], fail |-> [i \in 1..(n - p) |-> p + i]],
            [proc |-> [i \in 1..p |-> p + 1 - i], fail |-> [i \in 1..(n - p) |-> p + i]],
            [proc |-> [i \in 1..(n - p) |-> p + i], fail |-> [i \in 1..p |-> i]]}
           : p \in 0..n}

\* the fields of the i-th item of a put request (a null item has none)
SentFields(items, i) == IF items[i].j = "object" THEN items[i].m ELSE <<>>

\* answers to PUT /items for the items of the request
PutBodies(items) ==
    {[processed |-> [items |-> [i \in DOMAIN sp.proc |->
                                   Stored(SentFields(items, sp.proc[i]), sp.proc[i])]],
      failed |-> [items |-> [i \in DOMAIN sp.fail |-> SentFields(items, sp.fail[i])]]]
        : sp \in Splits(Len(items))}
    \cup {[processed |-> [items |-> <<SentFields(items, 1)>>]]}

\* answers to POST /items
InsertBodies(item) ==
    {JObject(Stored(IF item.j = "object" THEN item.m ELSE <<>>, 1)),
     JObject(<<>>), JNumber(1)}

\* the stored item with the given key
StoredItem(k) == JObject([key |-> JString(k)])

\* answers to POST /query that are not tied to a collection
FetchBodies ==
    LET pagings == {JNull, JObject([size |-> JNumber(2)]),
                    JObject([size |-> JNumber(2), last |-> JNull]),
                    JObject([size |-> JNumber(2), last |-> JString("k2")])}
        itemss == {JArray(<<>>), JArray(<<StoredItem("k1"), StoredItem("k2")>>)}
    IN  {[paging |-> pg, items |-> it] : pg \in pagings, it \in itemss}
        \cup {[items |-> it] : it \in itemss}
        \cup {[paging |-> pg] : pg \in pagings}

Min(a, b) == IF a < b THEN a ELSE b

\* the service's answer to POST /query over its collection, by the wire
\* protocol: the items after "last", at most "limit" of them (all of them
\* without a limit), and a paging.last only when items remain
ServiceQuery(coll, body) ==
    LET start == IF "last" \in DOMAIN body
                 THEN 1 + (CHOOSE i \in DOMAIN coll : coll[i] = StoredItem(body["last"].s))
                 ELSE 1
        lim == IF "limit" \in DOMAIN body THEN body["limit"].n ELSE Len(coll)
        end == Min(start + lim - 1, Len(coll))
        page == [i \in 1..(end - start + 1) |-> coll[start + i - 1]]
        size == [size |-> JNumber(Len(page))]
    IN  [paging |-> JObject(IF end < Len(coll)
                            THEN size @@ [last |-> coll[end].m["key"]]
                            ELSE size),
         items |-> JArray(page)]

(* ------------------------------- inputs -------------------------------- *)

Absent == [g |-> "absent"]

\* an object with the given key and name fields (Absent: no such field)
Obj(k, n) ==
    GoMap([f \in (IF k = Absent THEN {} ELSE {"key"}) \cup
                 (IF n = Absent THEN {} ELSE {"name"}) |->
              IF f = "key" THEN k ELSE n])

KeyVals ==
    {Absent, GoString(""), GoString("k1"), GoInt(1), GoBool(TRUE), GoNil,
     GoMap(<<>>), GoSlice(<<>>)}
NameVals == {Absent, GoString("a"), GoInt(1), GoChan}

\* values given to Put and Insert
Values ==
    {Obj(k, n) : k \in KeyVals, n \in NameVals}
    \cup {GoNil, GoChan, GoString("a"), GoInt(1), GoBool(TRUE), GoSlice(<<>>),
          GoSlice(<<Obj(Absent, GoString("a"))>>)}

\* elements of the slices given to PutMany
Elems ==
    {Obj(k, GoString("a")) : k \in {Absent, GoString(""), GoString("k1"), GoInt(1), GoNil}}
    \cup {Obj(GoString("k2"), Absent), GoNil, GoInt(1), GoChan, GoSlice(<<>>)}

\* a batch of n distinct items, without keys, with empty keys or with keys
Batch(n, kind) ==
    GoSlice([i \in 1..n |->
                CASE kind = "nokey" -> GoMap([seq |-> GoInt(i)])
                  [] kind = "emptykey" -> GoMap([key |-> GoString(""), seq |-> GoInt(i)])
                  [] kind = "keyed" -> GoMap([key |-> GoString("k" \o ToString(i))])])

ManyValues ==
    {GoSlice(e) : e \in UNION {[1..n -> Elems] : n \in 0..MaxLen}}
    \cup {Batch(n, kind) : n \in (MaxLen + 1)..MaxBatch, kind \in {"nokey", "emptykey", "keyed"}}
    \cup {GoNil, GoChan, GoInt(1), Obj(GoString("k1"), Absent)}

Keys == {"k1", "a/b"}
Dests == {"any", "map", "slice", "int"}

UpdateVals ==
    {GoString("x"), GoInt(1), GoSlice(<<GoInt(1)>>), TrimUtil,
     AppendUtil(GoSlice(<<GoInt(1)>>)), PrependUtil(GoSlice(<<GoInt(1)>>)),
     IncrementUtil(GoInt(1))}
UpdateSets == UNION {[d -> UpdateVals] : d \in SUBSET {"count", "tag", "name"}}

Queries == {NilSlice, SliceOf(<<>>), SliceOf(<<[name |-> GoString("a")]>>)}
Limits == (0 - 1)..MaxLimit

Ops == {"Put", "PutMany", "Get", "Insert", "Update", "Delete", "Fetch"}

Args(o) ==
    CASE o = "Put" -> {[item |-> v] : v \in Values}
      [] o = "Insert" -> {[item |-> v] : v \in Values}
      [] o = "PutMany" -> {[items |-> v] : v \in ManyValues}
      [] o = "Get" -> {[key |-> k, dest |-> d] : k \in Keys, d \in Dests}
      [] o = "Update" -> {[key |-> k, updates |-> u] : k \in Keys, u \in UpdateSets}
      [] o = "Delete" -> {[key |-> k] : k \in Keys}
      [] o = "Fetch" -> {[query |-> q, dest |-> d, limit |-> l] :
                            q \in Queries, d \in Dests, l \in Limits}

\* the collection of n items the service holds, in service order
Coll(n) == [i \in 1..n |-> StoredItem("k" \o ToString(i))]

(* ------------------------------- actions ------------------------------- *)

NoResp == [kind |-> "none"]

\* what the transport may answer to the PUT of the normalized items
PutAnswers(items) ==
    IF Len(items.elems) = 0 THEN {TransportErr}
    ELSE {TransportErr, BadJSON} \cup {Body(b) : b \in PutBodies(ItemsJSON(items).e)}

\* the call ends with outcome r, the transport having answered t
Finish(r, t) ==
    /\ pc' = "done"
    /\ sent' = r.sent
    /\ resp' = IF r.sent = <<>> THEN NoResp ELSE t
    /\ ret' = [x \in (DOMAIN r) \ {"sent"} |-> r[x]]
    /\ UNCHANGED <<op, arg, collection>>

Put ==
    /\ pc = "call" /\ op = "Put"
    /\ \E t \in PutAnswers(modifyItems(GoSlice(<<arg.item>>)).bi) :
          Finish(PutCall(arg.item, t), t)
    /\ UNCHANGED <<retrieved, calls>>

PutMany ==
    /\ pc = "call" /\ op = "PutMany"
    /\ \E t \in PutAnswers(modifyItems(arg.items).bi) :
          Finish(PutManyCall(arg.items, t), t)
    /\ UNCHANGED <<retrieved, calls>>

Insert ==
    /\ pc = "call" /\ op = "Insert"
    /\ \E t \in {TransportErr, BadJSON}
                \cup {Body(b) : b \in InsertBodies(ItemJSON(modifyItem(arg.item).bi))} :
          Finish(InsertCall(arg.item, t), t)
    /\ UNCHANGED <<retrieved, calls>>

Get ==
    /\ pc = "call" /\ op = "Get"
    /\ \E t \in {TransportErr, BadJSON, Body(StoredItem(arg.key)), Body(JNumber(1))} :
          Finish(GetCall(arg.key, arg.dest, t), t)
    /\ UNCHANGED <<retrieved, calls>>

Update ==
    /\ pc = "call" /\ op = "Update"
    /\ \E t \in {TransportErr, Body(JNull)}, order \in RangeOrders(arg.updates) :
          Finish(UpdateCall(arg.key, arg.updates, order, t), t)
    /\ UNCHANGED <<retrieved, calls>>

Delete ==
    /\ pc = "call" /\ op = "Delete"
    /\ \E t \in {TransportErr, Body(JNull)} :
          Finish(DeleteCall(arg.key, t), t)
    /\ UNCHANGED <<retrieved, calls>>

Fetch ==
    /\ pc = "call" /\ op = "Fetch"
    /\ \E t \in {TransportErr, BadJSON} \cup {Body(b) : b \in FetchBodies} :
          Finish(FetchCall(arg.query, arg.dest, arg.limit, t), t)
    /\ UNCHANGED <<retrieved, calls>>

\* a caller paging through the collection: the first Fetch, and another
\* Fetch while the cursor returned by the previous one is not empty.  Fetch
\* takes the query, the destination and the limit, so that is all the
\* caller can hand over; the service answers the request it receives
FetchPage ==
    /\ op = "Fetch"
    /\ calls < MaxCalls
    /\ \/ pc = "call"
       \/ pc = "done" /\ ret.kind = "return" /\ ret.err = NoErr /\ ret.val # ""
    /\ LET t == Body(ServiceQuery(collection, FetchWire(arg.query, arg.limit).body))
           r == FetchCall(arg.query, arg.dest, arg.limit, t)
       IN  /\ Finish(r, t)
           /\ retrieved' = retrieved \o r.dest
           /\ calls' = calls + 1

Init ==
    /\ pc = "call"
    /\ op \in Ops
    /\ arg \in Args(op)
    /\ sent = <<>>
    /\ resp = NoResp
    /\ ret = [kind |-> "none"]
    /\ collection = <<>>
    /\ retrieved = <<>>
    /\ calls = 0

Next == Put \/ PutMany \/ Get \/ Insert \/ Update \/ Delete \/ Fetch

Spec == Init /\ [][Next]_vars

InitPaging ==
    /\ pc = "call"
    /\ op = "Fetch"
    /\ arg \in {[query |-> NilSlice, dest |-> "slice", limit |-> l] : l \in Limits}
    /\ sent = <<>>
    /\ resp = NoResp
    /\ ret = [kind |-> "none"]
    /\ collection \in {Coll(n) : n \in 0..MaxItems}
    /\ retrieved = <<>>
    /\ calls = 0

NextPaging == FetchPage

SpecPaging == InitPaging /\ [][NextPaging]_vars

TypeOK == pc \in {"call", "done"} /\ op \in Ops

(* ------------------------------- claims -------------------------------- *)

Done(o) == pc = "done" /\ op = o

\* the input serializes to a JSON object
IsObject(v) == Marshal(v).ok /\ Marshal(v).data.j = "object"
\* the key of an object's fields is absent or a string
KeyOK(m) == "key" \notin DOMAIN m \/ m["key"].j = "string"
\* the fields key sanitization is to leave: all of them, but for an empty key
Sanitized(m) ==
    IF "key" \in DOMAIN m /\ m["key"] = JString("")
    THEN [f \in (DOMAIN m) \ {"key"} |-> m[f]]
    ELSE m
\* the input serializes to an array of JSON objects
IsObjects(v) ==
    /\ Marshal(v).ok
    /\ Marshal(v).data.j = "array"
    /\ \A i \in DOMAIN Marshal(v).data.e : Marshal(v).data.e[i].j = "object"

\* C1: key sanitization.  An item with an empty-string key is sent without a
\* key field, one with a non-empty string key or without a key is sent as it
\* is, every other field unchanged; an item whose key is not a string fails
\* with ErrBadItem and nothing is sent.  Checked on the item Insert sends
\* (modifyItem) and on the items PutMany sends (modifyItems).
C1_KeySanitization ==
    /\ Done("Insert") /\ IsObject(arg.item) =>
          LET m == Marshal(arg.item).data.m
          IN  IF KeyOK(m)
              THEN ret.err # ErrBadItem /\ Len(sent) = 1
                   /\ sent[1].body.item = JObject(Sanitized(m))
              ELSE ret.err = ErrBadItem /\ sent = <<>>
    /\ Done("PutMany") /\ IsObjects(arg.items) =>
          LET e == Marshal(arg.items).data.e
          IN  IF \A i \in DOMAIN e : KeyOK(e[i].m)
              THEN ret.err # ErrBadItem
                   /\ (sent # <<>> =>
                          sent[1].body.items = JArray([i \in DOMAIN e |->
                                                         JObject(Sanitized(e[i].m))]))
              ELSE ret.err = ErrBadItem /\ sent = <<>>

C1_Witness ==
    /\ Done("Insert")
    /\ arg.item = Obj(GoString(""), GoString("a"))
    /\ Len(sent) = 1
    /\ sent[1].body.item = JObject([name |-> JString("a")])

\* the field names in a bucket of an encoded update request
BucketNames(b) == IF b.j = "object" THEN DOMAIN b.m ELSE {}
TrimNames(b) == IF b.j = "array" THEN {b.e[i].s : i \in DOMAIN b.e} ELSE {}

\* C2: in the request Update sends, every field of the update set is in
\* exactly one of set, trim, append, prepend and increment, no other field
\* is in any of them, and the bucket is the one of the value's operation
\* tag, an untagged value landing in set unchanged.
C2_Buckets ==
    Done("Update") =>
        LET b == sent[1].body
            u == arg.updates
            names == [set |-> BucketNames(b.set), trim |-> TrimNames(b.trim),
                      append |-> BucketNames(b.append),
                      prepend |-> BucketNames(b.prepend),
                      increment |-> BucketNames(b.increment)]
        IN  /\ UNION {names[x] : x \in DOMAIN names} = DOMAIN u
            /\ \A x, y \in DOMAIN names : x # y => names[x] \cap names[y] = {}
            /\ b.trim.j = "array" => Cardinality(names.trim) = Len(b.trim.e)
            /\ \A k \in DOMAIN u :
                  CASE u[k].g = "trimUtil" -> k \in names.trim
                    [] u[k].g = "appendUtil" ->
                          k \in names.append /\ b.append.m[k] = Marshal(u[k].value).data
                    [] u[k].g = "prependUtil" ->
                          k \in names.prepend /\ b.prepend.m[k] = Marshal(u[k].value).data
                    [] u[k].g = "incrementUtil" ->
                          k \in names.increment
                          /\ b.increment.m[k] = Marshal(u[k].value).data
                    [] OTHER -> k \in names.set /\ b.set.m[k] = Marshal(u[k]).data

C2_Witness ==
    /\ Done("Update")
    /\ arg.updates = [count |-> IncrementUtil(GoInt(1)), tag |-> TrimUtil,
                      name |-> GoInt(1)]
    /\ sent[1].body.increment = JObject([count |-> JNumber(1)])
    /\ sent[1].body.set = JObject([name |-> JNumber(1)])

\* the number of items handed to PutMany
InputLen(v) == IF v.g = "slice" THEN Len(v.e) ELSE 0

\* C3: PutMany of n items that normalize: none gives a nil result, no error
\* and no request; 1 to 25 give exactly one PUT /items carrying all n items;
\* more than 25 give ErrTooManyItems and no request.
C3_BatchSize ==
    Done("PutMany") /\ ret.err # ErrBadItem =>
        LET n == InputLen(arg.items)
        IN  /\ n = 0 => sent = <<>> /\ ret.kind = "return"
                        /\ ret.val = NilSlice /\ ret.err = NoErr
            /\ n \in 1..25 => Len(sent) = 1 /\ sent[1].method = "PUT"
                              /\ sent[1].path = "/items"
                              /\ Len(sent[1].body.items.e) = n
            /\ n > 25 => sent = <<>> /\ ret.kind = "return"
                         /\ ret.val = NilSlice /\ ret.err = ErrTooManyItems

C3_Witness ==
    /\ Done("PutMany")
    /\ InputLen(arg.items) = 25
    /\ Len(sent) = 1
    /\ Len(sent[1].body.items.e) = 25

\* C4: a caller that repeats Fetch until the returned cursor is empty has
\* retrieved the whole collection, each item once and in service order; with
\* 15 items and limit 10 the second Fetch returns items 11 to 15 and an
\* empty cursor.
C4_Pagination ==
    /\ \A i \in DOMAIN retrieved : i \in DOMAIN collection /\ retrieved[i] = collection[i]
    /\ pc = "done" /\ ret.kind = "return" /\ ret.err = NoErr /\ ret.val = ""
          => retrieved = collection
    /\ Len(collection) = 15 /\ arg.limit = 10 /\ calls = 2
          => ret.kind = "return" /\ ret.val = ""
             /\ ret.dest = SubSeq(collection, 11, 15)

\* the last-key of a response body, "" when its paging metadata has none
LastKey(body) ==
    IF /\ "paging" \in DOMAIN body
       /\ body["paging"].j = "object"
       /\ "last" \in DOMAIN body["paging"].m
       /\ body["paging"].m["last"].j = "string"
    THEN body["paging"].m["last"].s
    ELSE ""

\* C5: a Fetch whose response decodes onto the destination returns the
\* response's last-key as the cursor, and the empty cursor when the paging
\* metadata has no last-key or is missing altogether; a Fetch that returns
\* an error returns the empty cursor.
C5_Cursor ==
    Done("Fetch") =>
        /\ ret.kind = "return" /\ ret.err # NoErr => ret.val = ""
        /\ resp.kind = "body" /\ Decodes(IF "items" \in DOMAIN resp.body
                                         THEN resp.body["items"] ELSE JNull, arg.dest)
              => ret.kind = "return" /\ ret.err = NoErr
                 /\ ret.val = LastKey(resp.body)

\* C6: normalization yields an item only for a JSON object: Insert of
\* anything that does not serialize to one object, and PutMany of anything
\* that does not serialize to an array of objects, fail with ErrBadItem and
\* send nothing.
C6_OnlyObjects ==
    /\ Done("Insert") /\ ~IsObject(arg.item) => ret.err = ErrBadItem /\ sent = <<>>
    /\ Done("PutMany") /\ ~IsObjects(arg.items) => ret.err = ErrBadItem /\ sent = <<>>
    /\ Done("Put") /\ arg.item # GoNil /\ ~IsObject(arg.item)
          => ret.err = ErrBadItem /\ sent = <<>>

\* the response splits the submitted items into processed ones, which
\* carry their keys, and failed ones
IsPartition(body) ==
    /\ "processed" \in DOMAIN body /\ "failed" \in DOMAIN body
    /\ \A i \in DOMAIN body["processed"]["items"] :
          HasStringKey(body["processed"]["items"][i])

\* C7: when the service answers a put with processed and failed items, Put
\* and PutMany return no error and the keys of the processed items in the
\* service's order, whatever the split, also when every item failed.
C7_ProcessedKeys ==
    /\ Done("PutMany") /\ resp.kind = "body" /\ IsPartition(resp.body) =>
          LET processed == resp.body["processed"]["items"]
          IN  /\ ret.kind = "return" /\ ret.err = NoErr
              /\ ret.val.elems = [i \in DOMAIN processed |-> processed[i]["key"].s]
    /\ Done("Put") /\ resp.kind = "body" /\ IsPartition(resp.body) =>
          LET processed == resp.body["processed"]["items"]
          IN  /\ ret.kind = "return" /\ ret.err = NoErr
              /\ ret.val = IF processed = <<>> THEN "" ELSE processed[1]["key"].s

\* the zero value an operation returns next to an error
ZeroValue == IF op = "PutMany" THEN NilSlice ELSE ""

\* C8: a call issues at most one request; when the transport fails the call
\* returns the transport's error and a zero value after that one request; a
\* call that fails with ErrBadItem or ErrTooManyItems, Put(nil) and PutMany
\* of no items issue none.
C8_OneRequest ==
    pc = "done" =>
        /\ Len(sent) <= 1
        /\ resp = TransportErr =>
              Len(sent) = 1 /\ ret.kind = "return"
              /\ ret.err = ErrTransport /\ ret.val = ZeroValue
        /\ ret.err \in {ErrBadItem, ErrTooManyItems} => sent = <<>>
        /\ op = "Put" /\ arg.item = GoNil => sent = <<>>
        /\ op = "PutMany" /\ InputLen(arg.items) = 0 => sent = <<>>

C8_Witness ==
    /\ Done("PutMany")
    /\ resp = TransportErr
    /\ Len(sent) = 1
    /\ ret.err = ErrTransport

\* C9: the request Fetch sends has a limit field exactly when the caller's
\* limit is positive, its value then being the caller's limit, and its query
\* field is the caller's query.
C9_Limit ==
    Done("Fetch") =>
        LET body == sent[1].body
        IN  /\ Len(sent) = 1
            /\ "limit" \in DOMAIN body <=> arg.limit > 0
            /\ arg.limit > 0 => body["limit"] = JNumber(arg.limit)
            /\ body["query"] = QueryJSON(arg.query)

C9_Witness ==
    /\ Done("Fetch")
    /\ arg.limit = 0
    /\ arg.query = SliceOf(<<[name |-> GoString("a")]>>)
    /\ DOMAIN sent[1].body = {"query"}

\* C10: the request Update sends holds set, append, prepend and increment
\* as mappings and trim as a list, none of them null, whatever the update
\* set; {"count": increment(1), "tag": trim()} is sent as set = {},
\* trim = ["tag"], append = {}, prepend = {}, increment = {"count": 1}.
C10_NonNullBuckets ==
    Done("Update") =>
        LET b == sent[1].body
        IN  /\ b.set.j = "object" /\ b.append.j = "object"
            /\ b.prepend.j = "object" /\ b.increment.j = "object"
            /\ b.trim.j = "array"
            /\ arg.updates = [count |-> IncrementUtil(GoInt(1)), tag |-> TrimUtil] =>
                  b = [set |-> JObject(<<>>), trim |-> JArray(<<JString("tag")>>),
                       append |-> JObject(<<>>), prepend |-> JObject(<<>>),
                       increment |-> JObject([count |-> JNumber(1)])]

====
